---- MODULE Spec2Model ----
(***************************************************************************)
(* Model of the Upscayl gateway: the service object UpscayleService        *)
(* (upscale_images, get_task_status, upscale_images_sync) and the two      *)
(* routes of upscayle_route.py.                                            *)
(*                                                                         *)
(* Time is counted in half seconds (the smallest poll interval is 0.5 s),  *)
(* so 5 s is 10 and the poll intervals [0.5,0.5,1,1,2,2,3,5,10] are        *)
(* <<1,1,2,2,4,4,6,10,20>>.                                                *)
(*                                                                         *)
(* JSON values are tagged records: [t |-> "null"], [t |-> "num"],          *)
(* [t |-> "str", v |-> s], [t |-> "list", items |-> seq] and               *)
(* [t |-> "obj", f |-> function from keys to JSON values].  A status       *)
(* string is a sequence of one-character strings so that str.upper() can   *)
(* be computed character by character.                                     *)
(***************************************************************************)
EXTENDS Integers, Sequences, FiniteSets, TLC

VARIABLES pc, op, files, max_wait_time, task_id, start_time, clock,
          poll_index, check_count, elapsed_time, task_response,
          status_response, remote, callTime, lastReply, outcome, trace,
          runs, pollState, now

\* one request at a time
seqVars == <<pc, op, files, max_wait_time, task_id, start_time, clock,
             poll_index, check_count, elapsed_time, task_response,
             status_response, remote, callTime, lastReply, outcome, trace>>

\* several runs of upscale_images_sync in flight on the event loop
concVars == <<runs, pollState, now>>

vars == <<seqVars, concVars>>

(***************************************************************************)
(* Bounds of the model.                                                    *)
(***************************************************************************)
MaxScript == 2

MaxUpload == 4

\* no sleep is begun that would end after this time (half seconds); the
\* deadline ends every run long before
MaxClock == 200

(***************************************************************************)
(* JSON values.                                                            *)
(***************************************************************************)
JNull == [t |-> "null"]

JNum == [t |-> "num"]

JStr(s) == [t |-> "str", v |-> s]

JList(items) == [t |-> "list", items |-> items]

JObj(f) == [t |-> "obj", f |-> f]

\* key in dict
HasKey(j, k) == j.t = "obj" /\ k \in DOMAIN j.f

(***************************************************************************)
(* str.upper() on a sequence of characters.                                *)
(***************************************************************************)
LowerLetters == <<"a","b","c","d","e","f","g","h","i","j","k","l","m",
                  "n","o","p","q","r","s","t","u","v","w","x","y","z">>

UpperLetters == <<"A","B","C","D","E","F","G","H","I","J","K","L","M",
                  "N","O","P","Q","R","S","T","U","V","W","X","Y","Z">>

UpperChar(c) ==
    IF \E i \in DOMAIN LowerLetters : LowerLetters[i] = c
    THEN UpperLetters[CHOOSE i \in DOMAIN LowerLetters : LowerLetters[i] = c]
    ELSE c

UpperIdentity(s) == s

Upper(s) == [i \in DOMAIN s |-> UpperChar(s[i])]

(***************************************************************************)
(* Program constants.                                                      *)
(***************************************************************************)
\* upscayle_route.py: allowed_types
allowed_types == {"image/jpeg", "image/jpg", "image/png", "image/webp"}

\* upscayle_route.py: len(files) > 3
MaxFiles == 3

\* get_task_status: base_url
base_url == "https://upscayl.org"

\* upscale_images_sync: poll_intervals, in half seconds
poll_intervals == <<1, 1, 2, 2, 4, 4, 6, 10, 20>>

PROCESSED == <<"P","R","O","C","E","S","S","E","D">>

COMPLETED == <<"C","O","M","P","L","E","T","E","D">>

COMPLETE == <<"C","O","M","P","L","E","T","E">>

SUCCESS == <<"S","U","C","C","E","S","S">>

DONE == <<"D","O","N","E">>

FAILED == <<"F","A","I","L","E","D">>

ERROR == <<"E","R","R","O","R">>

CompletionSetNoDone == {PROCESSED, COMPLETED, COMPLETE, SUCCESS}

\* upscale_images_sync: the list of the completion test
CompletionSet == {PROCESSED, COMPLETED, COMPLETE, SUCCESS, DONE}

FailureSetNoError == {FAILED}

\* upscale_images_sync: the list of the failure test
FailureSet == {FAILED, ERROR}

(***************************************************************************)
(* Results of a handler: a returned body or a raised exception.            *)
(* detail is the sequence of the pieces the f-string is built from.        *)
(***************************************************************************)
NoOutcome == [kind |-> "none", status_code |-> 0, detail |-> <<>>, body |-> JNull]

Returned(kind, body) ==
    [kind |-> kind, status_code |-> 200, detail |-> <<>>, body |-> body]

HTTPException(kind, status_code, detail) ==
    [kind |-> kind, status_code |-> status_code, detail |-> detail, body |-> JNull]

\* an exception that is not an HTTPException leaves the handler as it is
Uncaught(kind, text) ==
    [kind |-> kind, status_code |-> 500, detail |-> <<text>>, body |-> JNull]

(***************************************************************************)
(* The remote service: replies to POST /start-task.                        *)
(***************************************************************************)
TaskIds == {"t1", "t2"}

StartReplies ==
    {[k |-> "ConnectionError", text |-> "connection refused", body |-> JNull],
     [k |-> "HTTPError", text |-> "503 Server Error", body |-> JNull],
     [k |-> "JSONDecodeError", text |-> "Expecting value", body |-> JNull]}
    \cup {[k |-> "ok", text |-> "", body |-> b] :
            b \in {JObj([data |-> JObj([taskId |-> JStr(t)])]) : t \in TaskIds}
                  \cup {JObj([message |-> JStr("accepted")]),
                        JObj([data |-> JObj([message |-> JStr("queued")])]),
                        JObj([data |-> JNull])}}

(***************************************************************************)
(* The remote service: replies to POST /get-task-status.                   *)
(***************************************************************************)
Status(s) == JObj([data |-> JObj([status |-> JStr(s)])])

StatusFiles(s, fl) == JObj([data |-> JObj([status |-> JStr(s), files |-> fl])])

FileEntries ==
    <<JObj([url |-> JStr("http://x/a.png"), path |-> JStr("b.png")]),
      JObj([path |-> JStr("b.png")]),
      JObj([name |-> JStr("c.png")]),
      JStr("d.png")>>

StatusBodies ==
    {Status(<<"E","N","H","A","N","C","I","N","G">>),
     StatusFiles(PROCESSED, JList(<<JObj([path |-> JStr("out/1.png")])>>)),
     StatusFiles(<<"p","r","o","c","e","s","s","e","d">>, JList(FileEntries)),
     Status(<<"P","r","o","c","e","s","s","e","d">>),
     StatusFiles(<<"d","o","n","e">>, JStr("none")),
     Status(<<"C","o","m","p","l","e","t","e","d">>),
     Status(<<"c","o","m","p","l","e","t","e">>),
     Status(SUCCESS),
     JObj([data |-> JObj([status |-> JStr(FAILED),
                          error |-> JStr("quota exceeded")])]),
     Status(<<"e","r","r","o","r">>),
     Status(<<>>),
     Status(<<"P","R","O","C","E","S","S">>),
     JObj([data |-> JObj([progress |-> JNum])]),
     JObj([message |-> JStr("busy")]),
     JObj([data |-> JNull]),
     JObj([data |-> JList(<<>>)]),
     JObj([data |-> JObj([status |-> JNull])]),
     JObj([data |-> JObj([status |-> JNum])]),
     JNull}

\* more file-entry lists, seen by GET /upscale/task/{task_id}
MoreFileLists ==
    {<<JObj([path |-> JStr("p1.png")]),
       JObj([name |-> JStr("n.png")]),
       JObj([url |-> JStr("http://x/u2.png")]),
       JNum,
       JObj([path |-> JStr("p3.png"), url |-> JStr("http://x/u3.png")])>>,
     <<JObj([url |-> JStr("http://x/u2.png")]),
       JObj([path |-> JStr("p1.png")])>>,
     <<JNull, JObj([size |-> JNum])>>,
     <<>>}

RouteStatusReplies ==
    {[k |-> "ok", text |-> "",
      body |-> StatusFiles(<<"E","N","H","A","N","C","I","N","G">>, JList(fl))] :
        fl \in MoreFileLists}

StatusReplies ==
    {[k |-> "ConnectionError", text |-> "connection refused", body |-> JNull],
     [k |-> "HTTPError", text |-> "503 Server Error", body |-> JNull],
     [k |-> "JSONDecodeError", text |-> "Expecting value", body |-> JNull]}
    \cup {[k |-> "ok", text |-> "", body |-> b] : b \in StatusBodies}

\* a status source: the replies to the successive status calls, the last
\* one repeated for ever
Scripts ==
    UNION {[1..n -> StatusReplies] : n \in 1..MaxScript}

ScriptAt(script, i) == script[IF i <= Len(script) THEN i ELSE Len(script)]

\* time one status call takes, in half seconds (no time, or 6 s of the
\* 10 s the request may take)
CallTimes == {0, 12}

\* values of the max_wait_time argument, in half seconds (5 s and 65 s)
WaitTimes == {10, 130}

(***************************************************************************)
(* The uploads: sequences of content types.                                *)
(***************************************************************************)
Uploads ==
    {[i \in 1..n |-> "image/png"] : n \in {MaxFiles, MaxUpload}}
    \cup {<<"image/jpeg", "image/jpg", "image/webp">>,
          <<"image/png", "image/gif">>}

(***************************************************************************)
(* upscayle_route.py upscale_images: the two validations.                  *)
(***************************************************************************)
ValidUpload(f) ==
    /\ ~(Len(f) > MaxFiles)
    /\ \A i \in DOMAIN f : f[i] \in allowed_types

(***************************************************************************)
(* UpscayleService.upscale_images: one POST to /start-task and the         *)
(* handling of its reply.  No validation is made here.                     *)
(***************************************************************************)
upscale_images(f, reply) ==
    IF reply.k \in {"ConnectionError", "HTTPError", "JSONDecodeError"}
    THEN HTTPException("StartError", 500,
                       <<"Error communicating with Upscayl API: ", reply.text>>)
    ELSE Returned("Started", reply.body)

(***************************************************************************)
(* UpscayleService.get_task_status.                                        *)
(***************************************************************************)
\* str() of a JSON value inside an f-string
Format(j) ==
    IF j.t = "str" THEN j.v
    ELSE IF j.t = "null" THEN "None"
    ELSE IF j.t = "num" THEN "0"
    ELSE "[...]"

EntryUrlsPathFirst(file_info) ==
    IF file_info.t # "obj" THEN <<>>
    ELSE IF "path" \in DOMAIN file_info.f
         THEN <<JStr(base_url \o "/" \o Format(file_info.f.path))>>
    ELSE IF "url" \in DOMAIN file_info.f THEN <<file_info.f.url>>
    ELSE <<>>

\* the entry's contribution to image_urls: a sequence of zero or one value
EntryUrls(file_info) ==
    IF file_info.t # "obj" THEN <<>>
    ELSE IF "url" \in DOMAIN file_info.f THEN <<file_info.f.url>>
    ELSE IF "path" \in DOMAIN file_info.f
         THEN <<JStr(base_url \o "/" \o Format(file_info.f.path))>>
    ELSE <<>>

RECURSIVE UrlsOf(_)
UrlsOf(entries) ==
    IF entries = <<>> THEN <<>>
    ELSE EntryUrls(Head(entries)) \o UrlsOf(Tail(entries))

ImageUrls(data) ==
    IF "files" \in DOMAIN data.f /\ data.f.files.t = "list"
    THEN UrlsOf(data.f.files.items)
    ELSE <<>>

\* data.get("status", "")
StatusField(data) ==
    IF "status" \in DOMAIN data.f THEN data.f.status ELSE JStr(<<>>)

get_task_status(tid, reply) ==
    IF reply.k \in {"ConnectionError", "HTTPError", "JSONDecodeError"}
    THEN HTTPException("StatusError", 500,
                       <<"Error fetching task status: ", reply.text>>)
    ELSE IF reply.body.t = "null"
    THEN HTTPException("StatusError", 500,
                       <<"Error processing task status: ",
                         "argument of type 'NoneType' is not iterable">>)
    ELSE IF ~HasKey(reply.body, "data")
    THEN Returned("Status", reply.body)
    ELSE IF reply.body.f.data.t # "obj"
    THEN HTTPException("StatusError", 500,
                       <<"Error processing task status: ",
                         "object has no attribute 'get'">>)
    ELSE Returned("Status",
             JObj(("image_urls" :> JList(ImageUrls(reply.body.f.data)))
                  @@ ("task_status" :> StatusField(reply.body.f.data))
                  @@ reply.body.f))

(***************************************************************************)
(* upscale_images_sync: the body of the try block of one iteration, given  *)
(* what get_task_status did.  The result is the way the block is left:     *)
(* "return", "raise" (an HTTPException, re-raised by the first handler) or *)
(* "continue" (the block ended, or the second handler logged an error).    *)
(***************************************************************************)
TryBlockStrict(tid, got) ==
    IF got.kind = "StatusError"
    THEN [exit |-> "raise", outcome |-> got]
    ELSE IF ~HasKey(got.body, "data")
    THEN [exit |-> "raise",
          outcome |-> HTTPException("StatusError", 500,
                        <<"Unexpected response format for task ", tid>>)]
    ELSE IF StatusField(got.body.f.data).t # "str"
    THEN [exit |-> "continue", outcome |-> NoOutcome]
    ELSE IF Upper(StatusField(got.body.f.data).v) \in CompletionSet
    THEN [exit |-> "return", outcome |-> Returned("Completed", got.body)]
    ELSE IF Upper(StatusField(got.body.f.data).v) \in FailureSet
    THEN [exit |-> "raise",
          outcome |-> HTTPException("Failed", 500,
                        <<"Image upscaling failed: ",
                          IF "error" \in DOMAIN got.body.f.data.f
                          THEN Format(got.body.f.data.f.error)
                          ELSE "Unknown error">>)]
    ELSE [exit |-> "continue", outcome |-> NoOutcome]

TryBlock(tid, got) ==
    IF got.kind = "StatusError"
    THEN [exit |-> "raise", outcome |-> got]
    ELSE IF ~HasKey(got.body, "data")
    THEN [exit |-> "continue", outcome |-> NoOutcome]
    ELSE IF StatusField(got.body.f.data).t # "str"
    \* None.upper(): AttributeError, logged by the second handler
    THEN [exit |-> "continue", outcome |-> NoOutcome]
    ELSE IF Upper(StatusField(got.body.f.data).v) \in CompletionSet
    THEN [exit |-> "return", outcome |-> Returned("Completed", got.body)]
    ELSE IF Upper(StatusField(got.body.f.data).v) \in FailureSet
    THEN [exit |-> "raise",
          outcome |-> HTTPException("Failed", 500,
                        <<"Image upscaling failed: ",
                          IF "error" \in DOMAIN got.body.f.data.f
                          THEN Format(got.body.f.data.f.error)
                          ELSE "Unknown error">>)]
    ELSE [exit |-> "continue", outcome |-> NoOutcome]

\* upscale_images_sync: "data" in task_response and "taskId" in its data
\* (a data that is null makes the test itself raise a TypeError)
HasTaskIdAlways(resp) == TRUE

HasTaskId(resp) ==
    /\ HasKey(resp, "data")
    /\ HasKey(resp.f.data, "taskId")

\* task_response["data"]["taskId"]
TaskIdOf(resp) ==
    IF HasKey(resp, "data") /\ HasKey(resp.f.data, "taskId")
    THEN resp.f.data.f.taskId.v
    ELSE "none"

CurrentIntervalNoCap(i) == poll_intervals[(i % Len(poll_intervals)) + 1]

\* poll_intervals[min(poll_index, len(poll_intervals) - 1)], 0-based
CurrentInterval(i) ==
    poll_intervals[IF i < Len(poll_intervals) - 1 THEN i + 1
                   ELSE Len(poll_intervals)]

DeadlineReached(elapsed, limit) == elapsed >= limit

DeadlineNever(elapsed, limit) == FALSE

\* elapsed_time > max_wait_time
DeadlineExceeded(elapsed, limit) == elapsed > limit

Event(ev, id, d) == [ev |-> ev, id |-> id, d |-> d]

(***************************************************************************)
(* Several runs of upscale_images_sync on the one event loop.  A run is a  *)
(* coroutine: its frame holds the arguments and the position (pc, wakeAt), *)
(* and the locals task_id, start_time, poll_index and check_count, kept in *)
(* pollState.  calls, waits, seen and cancelledAt are history: the task id *)
(* of every status call, every interval slept, every elapsed time read,    *)
(* and the number of status calls made when the run was cancelled.         *)
(***************************************************************************)
RunIds == {"a", "b"}

NewRun ==
    [pc |-> "new", max_wait_time |-> 0, remote |-> <<>>, callTime |-> 0,
     wakeAt |-> 0, outcome |-> NoOutcome, calls |-> <<>>, waits |-> <<>>,
     seen |-> <<>>, cancelledAt |-> -1]

NoPollState ==
    [task_id |-> "none", start_time |-> 0, poll_index |-> 0, check_count |-> 0]

SlotShared(r) == "a"

\* the locals live in the frame of the call, one frame per run
Slot(r) == r

\* the task the remote service creates for a run
ConcTaskId(r) == IF r = "a" THEN "t1" ELSE "t2"

ConcStartReplies(r) ==
    {[k |-> "ConnectionError", text |-> "connection refused", body |-> JNull],
     [k |-> "ok", text |-> "", body |-> JObj([message |-> JStr("accepted")])],
     [k |-> "ok", text |-> "",
      body |-> JObj([data |-> JObj([taskId |-> JStr(ConcTaskId(r))])])]}

ConcReplies ==
    {[k |-> "ConnectionError", text |-> "connection refused", body |-> JNull],
     [k |-> "ok", text |-> "",
      body |-> Status(<<"E","N","H","A","N","C","I","N","G">>)],
     [k |-> "ok", text |-> "",
      body |-> StatusFiles(PROCESSED, JList(<<JObj([path |-> JStr("out/1.png")])>>))],
     [k |-> "ok", text |-> "",
      body |-> JObj([data |-> JObj([status |-> JStr(FAILED),
                                    error |-> JStr("quota exceeded")])])]}

ConcScripts == [1..1 -> ConcReplies] \cup [1..2 -> ConcReplies]

\* time one remote call of a run takes, in half seconds
ConcCallTimes == {0, 1}

\* values of the max_wait_time argument, in half seconds (1 s and 2 s)
ConcWaitTimes == {2, 4}

(***************************************************************************)
(* upscale_images_sync from the top of the while loop to the next await,   *)
(* or to the end of the run: nothing else runs on the event loop in        *)
(* between, and the blocking status call holds the loop for callTime.      *)
(* l is the frame, p its locals and t the time the run is resumed at.      *)
(***************************************************************************)
Segment(l, p, t) ==
    LET reply == ScriptAt(l.remote, p.check_count + 1)
        got == get_task_status(p.task_id, reply)
        blk == TryBlock(p.task_id, got)
        t1 == t + l.callTime
        elapsed == t1 - p.start_time
        called == [l EXCEPT !.calls = Append(@, p.task_id),
                            !.seen = IF got.kind = "StatusError" THEN @
                                     ELSE Append(@, elapsed)]
        counted == [p EXCEPT !.check_count =
                        IF got.kind = "StatusError" THEN @ ELSE @ + 1]
        current_interval == CurrentInterval(p.poll_index)
    IN IF blk.exit # "continue"
       THEN [run |-> [called EXCEPT !.pc = "done", !.outcome = blk.outcome],
             ps |-> counted, now |-> t1]
       ELSE IF DeadlineExceeded(elapsed, l.max_wait_time)
       THEN [run |-> [called EXCEPT
                        !.pc = "done",
                        !.outcome = HTTPException("TimedOut", 408,
                             <<"Task processing timeout after ",
                               ToString(elapsed \div 2),
                               " seconds. Task ID: ", p.task_id,
                               ". Check status at /upscale/task/", p.task_id>>)],
             ps |-> counted, now |-> t1]
       ELSE [run |-> [called EXCEPT !.pc = "sleeping",
                                    !.wakeAt = t1 + current_interval,
                                    !.waits = Append(@, current_interval)],
             ps |-> [counted EXCEPT !.poll_index = @ + 1],
             now |-> t1]

OnCancelAbsorbed(l) == l

\* CancelledError raised by await asyncio.sleep: it is raised outside the
\* try block, and is no Exception, so it leaves the coroutine
OnCancel(l) ==
    [l EXCEPT !.pc = "cancelled", !.outcome = Uncaught("CancelledError", "")]

(***************************************************************************)
(* State after construction of the singleton service: no request yet.      *)
(***************************************************************************)
Init ==
    /\ pc = "idle"
    /\ op = "none"
    /\ files = <<>>
    /\ max_wait_time = 0
    /\ task_id = "none"
    /\ start_time = 0
    /\ clock = 0
    /\ poll_index = 0
    /\ check_count = 0
    /\ elapsed_time = 0
    /\ task_response = NoOutcome
    /\ status_response = NoOutcome
    /\ remote = <<>>
    /\ callTime = 0
    /\ lastReply = [k |-> "none", text |-> "", body |-> JNull]
    /\ outcome = NoOutcome
    /\ trace = <<>>
    /\ runs = [r \in RunIds |-> NewRun]
    /\ pollState = [r \in RunIds |-> NoPollState]
    /\ now = 0

(***************************************************************************)
(* POST /upscale/images: validation, then upscale_images.                  *)
(***************************************************************************)
RouteUpscaleImages ==
    /\ pc = "idle"
    /\ \E f \in Uploads, reply \in StartReplies :
         /\ files' = f
         /\ IF Len(f) > MaxFiles
            THEN /\ outcome' = HTTPException("ValidationError", 400,
                                  <<"Maximum 3 files allowed per request">>)
                 /\ trace' = trace
            ELSE IF \E i \in DOMAIN f : f[i] \notin allowed_types
            THEN /\ outcome' = HTTPException("ValidationError", 400,
                                  <<"Invalid file type: ",
                                    f[CHOOSE i \in DOMAIN f :
                                        /\ f[i] \notin allowed_types
                                        /\ \A j \in 1..(i-1) : f[j] \in allowed_types]>>)
                 /\ trace' = trace
            ELSE /\ outcome' = upscale_images(f, reply)
                 /\ trace' = Append(trace, Event("start", "none", Len(f)))
    /\ pc' = "done"
    /\ op' = "route_images"
    /\ UNCHANGED <<max_wait_time, task_id, start_time, clock, poll_index,
                   check_count, elapsed_time, task_response, status_response,
                   remote, callTime, lastReply>>
    /\ UNCHANGED concVars

(***************************************************************************)
(* GET /upscale/task/{task_id}: get_task_status.                           *)
(***************************************************************************)
RouteGetTaskStatus ==
    /\ pc = "idle"
    /\ \E tid \in TaskIds, reply \in StatusReplies \cup RouteStatusReplies :
         /\ task_id' = tid
         /\ lastReply' = reply
         /\ outcome' = get_task_status(tid, reply)
         /\ trace' = Append(trace, Event("status", tid, 0))
    /\ pc' = "done"
    /\ op' = "route_status"
    /\ UNCHANGED <<files, max_wait_time, start_time, clock, poll_index,
                   check_count, elapsed_time, task_response, status_response,
                   remote, callTime>>
    /\ UNCHANGED concVars

(***************************************************************************)
(* upscale_images_sync up to the loop: the start call, the task id test    *)
(* and the set-up of the poll state.  The remote's future behaviour        *)
(* (the status source and the time a status call takes) is fixed when the  *)
(* task is created.                                                        *)
(***************************************************************************)
SyncStartFrom(uploads, startReplies, scripts) ==
    /\ pc = "idle"
    /\ op' = "sync"
    /\ \E f \in uploads, mw \in WaitTimes, reply \in startReplies :
         /\ task_response' = upscale_images(f, reply)
         /\ files' = f
         /\ max_wait_time' = mw
         /\ trace' = Append(trace, Event("start", "none", Len(f)))
         /\ IF task_response'.kind = "StartError"
            THEN /\ outcome' = task_response'
                 /\ pc' = "done"
                 /\ UNCHANGED <<task_id, remote, callTime>>
            ELSE IF HasKey(task_response'.body, "data")
                    /\ task_response'.body.f.data.t # "obj"
            THEN /\ outcome' = Uncaught("TypeError",
                                 "argument of type 'NoneType' is not iterable")
                 /\ pc' = "done"
                 /\ UNCHANGED <<task_id, remote, callTime>>
            ELSE IF ~HasTaskId(task_response'.body)
            THEN /\ outcome' = HTTPException("StartError", 500,
                                  <<"Failed to create upscaling task">>)
                 /\ pc' = "done"
                 /\ UNCHANGED <<task_id, remote, callTime>>
            ELSE /\ task_id' = TaskIdOf(task_response'.body)
                 /\ outcome' = NoOutcome
                 /\ pc' = "poll"
                 /\ \E sc \in scripts, ct \in CallTimes :
                      /\ remote' = sc
                      /\ callTime' = ct
    /\ start_time' = clock
    /\ poll_index' = 0
    /\ check_count' = 0
    /\ UNCHANGED <<clock, elapsed_time, status_response, lastReply>>
    /\ UNCHANGED concVars

(***************************************************************************)
(* One pass through the try block of the loop.                             *)
(***************************************************************************)
PollStatus ==
    /\ pc = "poll"
    /\ LET reply == ScriptAt(remote, check_count + 1)
           got == get_task_status(task_id, reply)
           blk == TryBlock(task_id, got)
       IN /\ lastReply' = reply
          /\ status_response' = got
          /\ clock' = clock + callTime
          /\ trace' = Append(trace, Event("status", task_id, 0))
          \* check_count += 1 is skipped when get_task_status raises
          /\ check_count' = IF got.kind = "StatusError" THEN check_count
                            ELSE check_count + 1
          /\ elapsed_time' = IF got.kind = "StatusError" THEN elapsed_time
                             ELSE clock' - start_time
          /\ IF blk.exit = "continue"
             THEN /\ pc' = "check_timeout"
                  /\ outcome' = outcome
             ELSE /\ pc' = "done"
                  /\ outcome' = blk.outcome
    /\ UNCHANGED <<op, files, max_wait_time, task_id, start_time, poll_index,
                   task_response, remote, callTime>>
    /\ UNCHANGED concVars

(***************************************************************************)
(* The deadline check.                                                     *)
(***************************************************************************)
CheckTimeout ==
    /\ pc = "check_timeout"
    /\ elapsed_time' = clock - start_time
    /\ IF DeadlineExceeded(elapsed_time', max_wait_time)
       THEN /\ pc' = "done"
            /\ outcome' = HTTPException("TimedOut", 408,
                             <<"Task processing timeout after ",
                               ToString(elapsed_time' \div 2),
                               " seconds. Task ID: ", task_id,
                               ". Check status at /upscale/task/", task_id>>)
       ELSE /\ pc' = "sleep"
            /\ outcome' = outcome
    /\ UNCHANGED <<op, files, max_wait_time, task_id, start_time, clock,
                   poll_index, check_count, task_response, status_response,
                   remote, callTime, lastReply, trace>>
    /\ UNCHANGED concVars

(***************************************************************************)
(* The backoff step: the interval, poll_index += 1 and the sleep.          *)
(***************************************************************************)
Sleep ==
    /\ pc = "sleep"
    /\ LET current_interval == CurrentInterval(poll_index)
       IN /\ clock + current_interval <= MaxClock
          /\ clock' = clock + current_interval
          /\ trace' = Append(trace, Event("sleep", "none", current_interval))
    /\ poll_index' = poll_index + 1
    /\ pc' = "poll"
    /\ UNCHANGED <<op, files, max_wait_time, task_id, start_time,
                   check_count, elapsed_time, task_response, status_response,
                   remote, callTime, lastReply, outcome>>
    /\ UNCHANGED concVars

SyncStart == SyncStartFrom(Uploads, StartReplies, Scripts)

Next ==
    \/ RouteUpscaleImages
    \/ RouteGetTaskStatus
    \/ SyncStart
    \/ PollStatus
    \/ CheckTimeout
    \/ Sleep

Spec == Init /\ [][Next]_vars

(***************************************************************************)
(* One run of upscale_images_sync under the scheduling of the event loop:  *)
(* the coroutine is resumed until it ends, every remote call returns and   *)
(* every sleep ends.                                                       *)
(***************************************************************************)
LiveStartReplies ==
    {[k |-> "ConnectionError", text |-> "connection refused", body |-> JNull],
     [k |-> "ok", text |-> "", body |-> JObj([message |-> JStr("accepted")])],
     [k |-> "ok", text |-> "", body |-> JObj([data |-> JNull])],
     [k |-> "ok", text |-> "",
      body |-> JObj([data |-> JObj([taskId |-> JStr("t1")])])]}

LiveReplies ==
    {[k |-> "ok", text |-> "", body |-> b] :
        b \in {Status(<<"E","N","H","A","N","C","I","N","G">>),
               Status(<<"P","R","O","C","E","S","S">>),
               JObj([message |-> JStr("busy")]),
               JObj([data |-> JObj([status |-> JNull])]),
               Status(<<"d","o","n","e">>)}}

LiveScripts == UNION {[1..n -> LiveReplies] : n \in 1..MaxScript}

LiveStart == SyncStartFrom({<<"image/png">>}, LiveStartReplies, LiveScripts)

LiveNext ==
    \/ LiveStart
    \/ PollStatus
    \/ CheckTimeout
    \/ Sleep

LiveSpec ==
    /\ Init
    /\ [][LiveNext]_vars
    /\ WF_vars(PollStatus)
    /\ WF_vars(CheckTimeout)
    /\ WF_vars(Sleep)

(***************************************************************************)
(* Runs in flight at once.  A run starts at any time the event loop is     *)
(* free: the start call and the first pass of the loop are made without an *)
(* await.                                                                  *)
(***************************************************************************)
CStart(r) ==
    /\ runs[r].pc = "new"
    /\ \E sc \in ConcScripts, mw \in ConcWaitTimes, ct \in ConcCallTimes,
          reply \in ConcStartReplies(r) :
         LET resp == upscale_images(<<"image/png">>, reply)
             l == [NewRun EXCEPT !.max_wait_time = mw, !.remote = sc,
                                 !.callTime = ct]
             t0 == now + ct
             p == [task_id |-> TaskIdOf(resp.body), start_time |-> t0,
                   poll_index |-> 0, check_count |-> 0]
             seg == Segment(l, p, t0)
         IN IF resp.kind = "StartError"
            THEN /\ runs' = [runs EXCEPT ![r] =
                               [l EXCEPT !.pc = "done", !.outcome = resp]]
                 /\ now' = t0
                 /\ UNCHANGED pollState
            ELSE IF ~HasTaskId(resp.body)
            THEN /\ runs' = [runs EXCEPT ![r] =
                               [l EXCEPT !.pc = "done",
                                         !.outcome = HTTPException("StartError", 500,
                                            <<"Failed to create upscaling task">>)]]
                 /\ now' = t0
                 /\ UNCHANGED pollState
            ELSE /\ runs' = [runs EXCEPT ![r] = seg.run]
                 /\ pollState' = [pollState EXCEPT ![Slot(r)] = seg.ps]
                 /\ now' = seg.now
    /\ UNCHANGED seqVars

\* the sleep of a run is over and the event loop resumes the run
CWake(r) ==
    /\ runs[r].pc = "sleeping"
    /\ runs[r].wakeAt <= now
    /\ LET seg == Segment(runs[r], pollState[Slot(r)], now)
       IN /\ runs' = [runs EXCEPT ![r] = seg.run]
          /\ pollState' = [pollState EXCEPT ![Slot(r)] = seg.ps]
          /\ now' = seg.now
    /\ UNCHANGED seqVars

\* the event loop is idle until the next sleep ends
CTick ==
    /\ \E r \in RunIds : runs[r].pc = "sleeping"
    /\ \A r \in RunIds : runs[r].pc = "sleeping" => runs[r].wakeAt > now
    /\ \E r \in RunIds :
         /\ runs[r].pc = "sleeping"
         /\ \A q \in RunIds :
               runs[q].pc = "sleeping" => runs[r].wakeAt <= runs[q].wakeAt
         /\ now' = runs[r].wakeAt
    /\ UNCHANGED <<seqVars, runs, pollState>>

\* the request of a run is cancelled while the run sleeps
CCancel(r) ==
    /\ runs[r].pc = "sleeping"
    /\ runs[r].cancelledAt = -1
    /\ runs' = [runs EXCEPT ![r] =
                  [OnCancel(runs[r]) EXCEPT !.cancelledAt = Len(runs[r].calls)]]
    /\ UNCHANGED <<seqVars, pollState, now>>

ConcNext ==
    \/ \E r \in RunIds : CStart(r)
    \/ \E r \in RunIds : CWake(r)
    \/ CTick
    \/ \E r \in RunIds : CCancel(r)

ConcSpec == Init /\ [][ConcNext]_vars

(***************************************************************************)
(* Vocabulary of the properties.  The classification used here compares    *)
(* letter by letter and does not go through Upper, CompletionSet or        *)
(* FailureSet.                                                             *)
(***************************************************************************)
IsStatusEvent(e) == e.ev = "status"

IsSleepEvent(e) == e.ev = "sleep"

IsStartEvent(e) == e.ev = "start"

StatusCalls == SelectSeq(trace, IsStatusEvent)

Waits == SelectSeq(trace, IsSleepEvent)

StartCalls == SelectSeq(trace, IsStartEvent)

SameIgnoringCase(s, w) ==
    /\ Len(s) = Len(w)
    /\ \A i \in DOMAIN s :
          \/ s[i] = w[i]
          \/ \E n \in DOMAIN UpperLetters :
                UpperLetters[n] = w[i] /\ LowerLetters[n] = s[i]

CompletedWords == {PROCESSED, COMPLETED, COMPLETE, SUCCESS, DONE}

FailedWords == {FAILED, ERROR}

HasStringStatus(r) ==
    /\ r.k = "ok"
    /\ HasKey(r.body, "data")
    /\ HasKey(r.body.f.data, "status")
    /\ r.body.f.data.f.status.t = "str"

StatusOf(r) == r.body.f.data.f.status.v

ReportsCompleted(r) ==
    HasStringStatus(r)
    /\ \E w \in CompletedWords : SameIgnoringCase(StatusOf(r), w)

ReportsFailed(r) ==
    HasStringStatus(r)
    /\ \E w \in FailedWords : SameIgnoringCase(StatusOf(r), w)

\* the call failed: transport error, non-success HTTP status, unparseable
\* body, or a body get_task_status cannot process
StatusCallFails(r) ==
    \/ r.k \in {"ConnectionError", "HTTPError", "JSONDecodeError"}
    \/ r.k = "ok" /\ r.body.t = "null"
    \/ r.k = "ok" /\ HasKey(r.body, "data") /\ r.body.f.data.t # "obj"

\* a reply that carries a payload and reports no terminal status
ReportsNonTerminal(r) ==
    /\ r.k = "ok"
    /\ ~StatusCallFails(r)
    /\ ~ReportsCompleted(r)
    /\ ~ReportsFailed(r)

SyncDone == op = "sync" /\ pc = "done"

\* the run of upscale_images_sync created its task and has ended
PollingDone == SyncDone /\ task_id # "none"

CarriesTaskId(o) == \E i \in DOMAIN o.detail : o.detail[i] = task_id

(***************************************************************************)
(* C1: inside the polling loop a failing get_task_status call does not end *)
(* the run; the run ends with an error only when the deadline is exceeded  *)
(* or the remote reports FAILED/ERROR.                                     *)
(***************************************************************************)
C1_StatusErrorsAreTransient ==
    /\ (op = "sync" /\ lastReply.k # "none" /\ StatusCallFails(lastReply)
        /\ pc = "done")
          => outcome.kind = "TimedOut"
    /\ (PollingDone /\ outcome.status_code # 200)
          => \/ outcome.kind = "TimedOut"
             \/ outcome.kind = "Failed" /\ ReportsFailed(lastReply)

(***************************************************************************)
(* C2: the first status check is made without a wait, status checks and    *)
(* sleeps alternate, and the k-th sleep lasts poll_intervals[min(k, 8)]:   *)
(* the first 12 waits are 0.5,0.5,1,1,2,2,3,5,10,10,10,10 s and every      *)
(* later wait is 10 s (in half seconds below).                             *)
(***************************************************************************)
First12Waits == <<1, 1, 2, 2, 4, 4, 6, 10, 20, 20, 20, 20>>

C2_BackoffSchedule ==
    op = "sync" =>
      /\ \A i \in DOMAIN trace :
            trace[i].ev = IF i = 1 THEN "start"
                          ELSE IF i % 2 = 0 THEN "status" ELSE "sleep"
      /\ \A k \in DOMAIN Waits :
            Waits[k].d = IF k <= Len(First12Waits) THEN First12Waits[k]
                         ELSE First12Waits[Len(First12Waits)]
      /\ Len(Waits) = poll_index
      /\ (Len(StatusCalls) = 0 /\ pc = "poll") => clock = start_time

C2_Witness ==
    /\ op = "sync"
    /\ Len(Waits) > Len(First12Waits)
    /\ \A i \in DOMAIN remote : ReportsNonTerminal(remote[i])

(***************************************************************************)
(* C3: with max_wait_time = 5 s, status calls that take no time and a      *)
(* status source that only reports non-terminal statuses, the run ends     *)
(* with the timeout outcome (408) carrying the task id.                    *)
(* Original: the elapsed time at that moment is no more than about 5 s     *)
(* (within half a second).  Amended: it is 7 s, the first moment of the    *)
(* wait schedule 0, 0.5, 1, 2, 3, 5, 7 that is strictly more than 5 s.     *)
(***************************************************************************)
C3_Case ==
    /\ PollingDone
    /\ max_wait_time = 10
    /\ callTime = 0
    /\ \A i \in DOMAIN remote : ReportsNonTerminal(remote[i])

FirstCompletedPos(script) ==
    IF \E i \in DOMAIN script : ReportsCompleted(script[i])
    THEN CHOOSE i \in DOMAIN script :
            /\ ReportsCompleted(script[i])
            /\ \A j \in 1..(i - 1) : ~ReportsCompleted(script[j])
    ELSE 0

EndToEndScript ==
    <<[k |-> "ok", text |-> "",
       body |-> Status(<<"E","N","H","A","N","C","I","N","G">>)],
      [k |-> "ok", text |-> "",
       body |-> StatusFiles(PROCESSED,
                            JList(<<JObj([path |-> JStr("out/1.png")])>>))]>>

C4_ReturnsAtFirstCompleted ==
    /\ (SyncDone /\ outcome.kind = "Completed") =>
          /\ check_count = FirstCompletedPos(remote)
          /\ Len(StatusCalls) = check_count
          /\ Len(Waits) = check_count - 1
          /\ trace[Len(trace)].ev = "status"
          /\ outcome.status_code = 200
          /\ outcome.body.f.data = remote[check_count].body.f.data
          /\ HasKey(outcome.body, "image_urls")
    \* the scenario, when the first check ends within max_wait_time
    /\ (PollingDone /\ remote = EndToEndScript /\ callTime <= max_wait_time) =>
          /\ outcome.kind = "Completed"
          /\ check_count = 2
          /\ Len(StatusCalls) = 2
          /\ outcome.body.f.image_urls
               = JList(<<JStr("https://upscayl.org/out/1.png")>>)

C4_Witness ==
    /\ PollingDone
    /\ task_id = "t1"
    /\ remote = EndToEndScript
    /\ outcome.kind = "Completed"
    /\ check_count = 2

(***************************************************************************)
(* C5: once the start call has succeeded, a run ends only as Completed,    *)
(* Failed or TimedOut, and a remote-side failure is delivered as Failed    *)
(* with the remote's reason.                                               *)
(***************************************************************************)
C5_ThreeTerminalOutcomes ==
    /\ PollingDone => outcome.kind \in {"Completed", "Failed", "TimedOut"}
    /\ (PollingDone /\ outcome.kind = "Failed") =>
          /\ ReportsFailed(lastReply)
          /\ outcome.detail[2] =
               IF HasKey(lastReply.body.f.data, "error")
               THEN lastReply.body.f.data.f.error.v
               ELSE "Unknown error"

(***************************************************************************)
(* C6: every error outcome of upscale_images_sync produced after the task  *)
(* was created includes the task id.                                       *)
(***************************************************************************)
C6_ErrorsCarryTaskId ==
    (PollingDone /\ outcome.status_code # 200) => CarriesTaskId(outcome)

(***************************************************************************)
(* C7: a start call with more than 3 files, or with a file of a content    *)
(* type outside the allowed set, fails with a validation error and no      *)
(* POST to /start-task is issued, from the route and from                  *)
(* upscale_images_sync alike.                                              *)
(***************************************************************************)
C7_InvalidUploadNeverPosted ==
    (op \in {"route_images", "sync"} /\ ~ValidUpload(files)) =>
      /\ Len(StartCalls) = 0
      /\ pc = "done"
      /\ outcome.kind = "ValidationError"

(***************************************************************************)
(* C8: if the start call fails or its response lacks data.taskId, the run  *)
(* ends with an error at once, after exactly one start call and without    *)
(* any status call or sleep; in every run there is exactly one start call  *)
(* and it precedes every status call.                                      *)
(***************************************************************************)
StartGaveNoTask ==
    \/ task_response.kind = "StartError"
    \/ /\ task_response.kind = "Started"
       /\ ~(/\ HasKey(task_response.body, "data")
            /\ HasKey(task_response.body.f.data, "taskId"))

C8_StartOnceAndFatal ==
    op = "sync" =>
      /\ Len(StartCalls) = 1
      /\ trace[1].ev = "start"
      /\ StartGaveNoTask =>
            /\ pc = "done"
            /\ outcome.status_code = 500
            /\ outcome.kind \in {"StartError", "TypeError"}
            /\ trace = <<Event("start", "none", Len(files))>>
            /\ check_count = 0
            /\ poll_index = 0

C8_Witness ==
    /\ op = "sync"
    /\ pc = "done"
    /\ task_response.kind = "Started"
    /\ ~HasKey(task_response.body, "data")
    /\ outcome.kind = "StartError"

(***************************************************************************)
(* C9: normalizing a status payload (get_task_status followed by the       *)
(* classification of upscale_images_sync) yields exactly one of            *)
(* InProgress, Completed or Failed for every payload, well-formed or       *)
(* malformed, and never raises.                                            *)
(***************************************************************************)
Normalize(body) ==
    LET got == get_task_status("t1", [k |-> "ok", text |-> "", body |-> body])
        blk == TryBlock("t1", got)
    IN IF got.kind = "StatusError" THEN "Raises"
       ELSE IF blk.exit = "return" THEN "Completed"
       ELSE IF blk.exit = "raise" THEN "Failed"
       ELSE "InProgress"

C9_NormalizeIsTotal ==
    (op = "sync" /\ lastReply.k = "ok") =>
      /\ Normalize(lastReply.body) \in {"InProgress", "Completed", "Failed"}
      /\ status_response.kind # "StatusError"

(***************************************************************************)
(* C10: the classification of a status string is case-insensitive and a    *)
(* partition: Completed when its uppercase form is in the completion set,  *)
(* Failed when it is in the failure set, InProgress otherwise (the empty   *)
(* string too); processed, PROCESSED and Processed are all Completed.      *)
(***************************************************************************)
C10_CaseInsensitivePartition ==
    /\ (op = "sync" /\ HasStringStatus(lastReply)) =>
          /\ ReportsCompleted(lastReply) =>
                pc = "done" /\ outcome.kind = "Completed"
          /\ ReportsFailed(lastReply) =>
                pc = "done" /\ outcome.kind = "Failed"
          /\ (~ReportsCompleted(lastReply) /\ ~ReportsFailed(lastReply)) =>
                /\ outcome.kind \notin {"Completed", "Failed"}
                /\ Normalize(lastReply.body) = "InProgress"
          /\ ~(ReportsCompleted(lastReply) /\ ReportsFailed(lastReply))
    /\ Normalize(Status(<<"p","r","o","c","e","s","s","e","d">>)) = "Completed"
    /\ Normalize(Status(<<"P","R","O","C","E","S","S","E","D">>)) = "Completed"
    /\ Normalize(Status(<<"P","r","o","c","e","s","s","e","d">>)) = "Completed"
    /\ Normalize(Status(<<>>)) = "InProgress"

C10_Witness ==
    /\ SyncDone
    /\ HasStringStatus(lastReply)
    /\ StatusOf(lastReply) = <<"P","r","o","c","e","s","s","e","d">>
    /\ outcome.kind = "Completed"

(***************************************************************************)
(* C11: image_urls holds, in the order of the file entries, the url of an  *)
(* entry that has one (also when it has a path), otherwise <baseURL>/path  *)
(* for an entry that has a path, and nothing for an entry with neither; it *)
(* is never longer than the entry list.                                    *)
(***************************************************************************)
\* what get_task_status returned for lastReply
StatusResult == IF op = "sync" THEN status_response ELSE outcome

HasFileList(r) ==
    /\ r.k = "ok"
    /\ HasKey(r.body, "data")
    /\ HasKey(r.body.f.data, "files")
    /\ r.body.f.data.f.files.t = "list"

Contributes(e) ==
    e.t = "obj" /\ ("url" \in DOMAIN e.f \/ "path" \in DOMAIN e.f)

ExpectedUrl(e) ==
    IF "url" \in DOMAIN e.f THEN e.f.url
    ELSE JStr("https://upscayl.org/" \o e.f.path.v)

\* the number of contributing entries among the first i
Rank(entries, i) == Cardinality({j \in 1..i : Contributes(entries[j])})

C11_ImageUrlsFromEntries ==
    (op \in {"sync", "route_status"} /\ HasFileList(lastReply)) =>
      LET entries == lastReply.body.f.data.f.files.items
          urls == StatusResult.body.f.image_urls.items
      IN /\ Len(urls) = Rank(entries, Len(entries))
         /\ Len(urls) <= Len(entries)
         /\ \A i \in DOMAIN entries :
               Contributes(entries[i]) =>
                  urls[Rank(entries, i)] = ExpectedUrl(entries[i])
         /\ entries = FileEntries =>
               urls = <<JStr("http://x/a.png"),
                        JStr("https://upscayl.org/b.png")>>

C11_Witness ==
    /\ op = "route_status"
    /\ HasFileList(lastReply)
    /\ Len(lastReply.body.f.data.f.files.items) = 5
    /\ outcome.body.f.image_urls.items
         = <<JStr("https://upscayl.org/p1.png"), JStr("http://x/u2.png"),
             JStr("http://x/u3.png")>>

(***************************************************************************)
(* C12: every successful response of GET /upscale/task/{task_id} includes  *)
(* an image_urls list and a task_status string, whatever the shape of the  *)
(* remote body.                                                            *)
(***************************************************************************)
C12_StatusResponseShape ==
    (op = "route_status" /\ pc = "done" /\ outcome.status_code = 200) =>
      /\ HasKey(outcome.body, "image_urls")
      /\ outcome.body.f.image_urls.t = "list"
      /\ HasKey(outcome.body, "task_status")
      /\ outcome.body.f.task_status.t = "str"

(***************************************************************************)
(* C13: a status check that reports FAILED or ERROR ends the run at that   *)
(* check with the Failed outcome, without any further status call or       *)
(* sleep; the reason is the payload's error field when present and         *)
(* 'Unknown error' when absent.                                            *)
(***************************************************************************)
C13_FailedEndsRun ==
    (op = "sync" /\ ReportsFailed(lastReply)) =>
      /\ pc = "done"
      /\ outcome.kind = "Failed"
      /\ outcome.status_code = 500
      /\ outcome.detail =
           <<"Image upscaling failed: ",
             IF HasKey(lastReply.body.f.data, "error")
             THEN lastReply.body.f.data.f.error.v
             ELSE "Unknown error">>
      /\ trace[Len(trace)].ev = "status"
      /\ Len(StatusCalls) = check_count
      /\ Len(Waits) = check_count - 1

C13_Witness ==
    /\ SyncDone
    /\ outcome.kind = "Failed"
    /\ outcome.detail[2] = "Unknown error"
    /\ check_count = 2

(***************************************************************************)
(* C14: a status response with no data object, with no status field or     *)
(* with a status outside the completion and the failure set never ends a   *)
(* run by itself: the run goes on to the deadline check and, the deadline  *)
(* not exceeded, sleeps and polls again; such a run can only end TimedOut. *)
(***************************************************************************)
Quiet(r) ==
    /\ r.k = "ok"
    /\ r.body.t = "obj"
    /\ \/ ~HasKey(r.body, "data")
       \/ /\ r.body.f.data.t = "obj"
          /\ \/ ~HasKey(r.body.f.data, "status")
             \/ r.body.f.data.f.status.t # "str"
             \/ (~ReportsCompleted(r) /\ ~ReportsFailed(r))

C14_QuietRepliesKeepPolling ==
    (op = "sync" /\ Quiet(lastReply)) =>
      /\ status_response.kind = "Status"
      /\ pc \in {"check_timeout", "sleep", "poll", "done"}
      /\ pc = "done" => (outcome.kind = "TimedOut"
                         /\ elapsed_time > max_wait_time)
      /\ pc # "done" => outcome = NoOutcome
      /\ pc \in {"sleep", "poll"} => elapsed_time <= max_wait_time
      /\ pc = "poll" => Len(Waits) = Len(StatusCalls)
      /\ Len(StatusCalls) = check_count

C14_Witness ==
    /\ PollingDone
    /\ \A i \in DOMAIN remote : Quiet(remote[i])
    /\ ~HasKey(lastReply.body, "data")
    /\ outcome.kind = "TimedOut"
    /\ check_count > 2

(***************************************************************************)
(* C18: in every iteration the status check precedes the deadline check    *)
(* and the deadline check is strict: a completion or failure seen after    *)
(* the deadline has passed is still Completed or Failed, TimedOut comes    *)
(* only directly after a status check that did not end the run, and an     *)
(* elapsed time equal to max_wait_time leads to one more sleep and check.  *)
(***************************************************************************)
C18_CheckBeforeStrictDeadline ==
    op = "sync" =>
      /\ (pc = "done" /\ ReportsCompleted(lastReply)) =>
            outcome.kind = "Completed"
      /\ (pc = "done" /\ ReportsFailed(lastReply)) => outcome.kind = "Failed"
      /\ outcome.kind = "TimedOut" =>
            /\ elapsed_time > max_wait_time
            /\ trace[Len(trace)].ev = "status"
            /\ status_response.kind = "Status"
            /\ ~ReportsCompleted(lastReply)
            /\ ~ReportsFailed(lastReply)
      /\ pc = "check_timeout" => trace[Len(trace)].ev = "status"
      /\ pc = "sleep" => elapsed_time <= max_wait_time
      \* 5 s, calls that take no time: elapsed is exactly 5 s at the sixth
      \* check, and a sixth sleep and a seventh check follow
      /\ (outcome.kind = "TimedOut" /\ max_wait_time = 10 /\ callTime = 0) =>
            (check_count = 7 /\ Len(Waits) = 6)

C18_Witness ==
    /\ SyncDone
    /\ outcome.kind = "Completed"
    /\ elapsed_time > max_wait_time

(***************************************************************************)
(* C15: every run of upscale_images_sync terminates.  Under the scheduling *)
(* of the event loop (every remote call returns, every sleep ends), a run  *)
(* that was started reaches a terminal outcome, whatever the start reply,  *)
(* the status replies (in progress, unknown, malformed), the time the      *)
(* calls take and max_wait_time.                                           *)
(***************************************************************************)
C15_Terminates == (op = "sync") ~> (pc = "done" /\ outcome.kind # "none")

\* a run that saw nothing but in-progress, unknown and malformed replies
\* has ended
C15_Witness ==
    /\ SyncDone
    /\ outcome.kind = "TimedOut"
    /\ max_wait_time = 130
    /\ check_count >= 12
    /\ \A i \in DOMAIN remote :
          /\ ~ReportsCompleted(remote[i])
          /\ ~ReportsFailed(remote[i])
          /\ ~StatusCallFails(remote[i])
    /\ \E i \in DOMAIN remote : ~HasStringStatus(remote[i])

(***************************************************************************)
(* C16: runs in flight at once do not touch each other's task id, start    *)
(* time, backoff index and check count.  Of every run: each status call    *)
(* carries the id of the run's own task, the waits are the backoff         *)
(* schedule from its beginning, the elapsed times it reads grow by at      *)
(* least the interval slept, and the way it ended, the number of its       *)
(* status calls and the number of its waits are those of the run executing *)
(* alone against the same status replies and the same clock readings.      *)
(***************************************************************************)
Schedule(k) == First12Waits[IF k <= Len(First12Waits) THEN k ELSE Len(First12Waits)]

RECURSIVE Alone(_, _, _, _)
\* the run executing alone from its k-th status check on: how it ends, after
\* how many status calls and how many waits
Alone(script, limit, readings, k) ==
    LET r == ScriptAt(script, k) IN
    IF StatusCallFails(r)
    THEN [kind |-> "StatusError", calls |-> k, waits |-> k - 1]
    ELSE IF k > Len(readings)
    THEN [kind |-> "none", calls |-> k - 1, waits |-> k - 1]
    ELSE IF ReportsCompleted(r)
    THEN [kind |-> "Completed", calls |-> k, waits |-> k - 1]
    ELSE IF ReportsFailed(r)
    THEN [kind |-> "Failed", calls |-> k, waits |-> k - 1]
    ELSE IF readings[k] > limit
    THEN [kind |-> "TimedOut", calls |-> k, waits |-> k - 1]
    ELSE Alone(script, limit, readings, k + 1)

\* the run created its task
Polled(r) == runs[r].calls # <<>>

C17_CancelEndsPolling ==
    \A r \in RunIds :
       runs[r].cancelledAt >= 0 =>
          /\ runs[r].pc = "cancelled"
          /\ Len(runs[r].calls) = runs[r].cancelledAt
          /\ runs[r].outcome.kind = "CancelledError"

\* a run was cancelled in the middle of its polling, the time its sleep
\* would have ended at has passed, and the other run polled on to its end
C17_Witness ==
    \E r, q \in RunIds :
       /\ runs[r].cancelledAt >= 2
       /\ runs[r].pc = "cancelled"
       /\ now > runs[r].wakeAt
       /\ runs[q].pc = "done"
       /\ Len(runs[q].calls) > runs[r].cancelledAt

====
